---- MODULE Spec2Model ----
(***************************************************************************)
(* Social-feed backend (src/index.js, src/models/*.js): the reaction       *)
(* ledger (PUT /api/react/:targetType/:id and the older PUT                  *)
(* /posts/:id/like), the comment thread engine (POST /posts/:id/comments),   *)
(* the listings of comments (GET /posts/:id/comments, GET                    *)
(* /comments/:id/replies) and the feed (GET /posts, POST /posts) over the    *)
(* three collections Post, Comment and Like.                                *)
(*                                                                          *)
(* Every handler is an async function: each `await` on the store is one      *)
(* atomic step, and the steps of requests that overlap interleave.  A        *)
(* handler is modelled by one step operator per await (a pure function of    *)
(* the store and of the request's local variables) and one action per step.  *)
(***************************************************************************)
EXTENDS Integers, Sequences, FiniteSets, TLC

(* ------------------------------ bounds --------------------------------- *)
NumUsers == 2
MaxPosts == 3
MaxComments == 3
MaxReacts == 3
MaxInFlight == 2

(* null: the default of Comment.parentComment / replyToUser, and the value  *)
(* of an absent parentId; document ids start at 1.                          *)
Null == 0

Users == 1..NumUsers
PostIds == 1..MaxPosts
CommentIds == (MaxPosts + 1)..(MaxPosts + MaxComments)
TargetTypes == {"Post", "Comment"}
ReactionTypes == {"Like", "Haha"}

VARIABLES posts, comments, likes, reqs, resp, reactsStarted

vars == <<posts, comments, likes, reqs, resp, reactsStarted>>

(* The persistent store as one value, for the step operators.               *)
Store == [posts |-> posts, comments |-> comments, likes |-> likes]

(* ------------------------------ documents ------------------------------ *)
(* Post: likesCount and commentsCount default to 0; privacy is "public" or  *)
(* "private", or "unset" on a record written before the field existed.      *)
NewPost(userId, privacy) ==
    [userId |-> userId, privacy |-> privacy, likesCount |-> 0, commentsCount |-> 0]

NewComment(postId, userId, parentComment, replyToUser) ==
    [postId |-> postId, userId |-> userId, parentComment |-> parentComment,
     replyToUser |-> replyToUser, likesCount |-> 0, replyCount |-> 0]

(* Like: likes is the collection in createdAt order (oldest first).         *)
NewLike(_id, userId, targetId, targetType, type) ==
    [_id |-> _id, userId |-> userId, targetId |-> targetId,
     targetType |-> targetType, type |-> type]

NoLike == NewLike(Null, Null, Null, "none", "none")

(* A request whose body carries no reactionType: the destructured value is  *)
(* undefined.                                                               *)
Absent == "absent"

(* type: { type: String, default: "Like" }: a document built or read back   *)
(* without a type has the default; any given type is kept as it is.         *)
TypeOrDefault(type) == IF type = Absent THEN "Like" ELSE type

(* ------------------------------ store operations ----------------------- *)
Range(s) == {s[k] : k \in DOMAIN s}

(* Like.findOne({ userId, targetId, targetType }): the matching entry, or   *)
(* NoLike.                                                                  *)
FindOneLike(L, userId, targetId, targetType) ==
    LET hit == {k \in DOMAIN L : /\ L[k].userId = userId
                                 /\ L[k].targetId = targetId
                                 /\ L[k].targetType = targetType}
    IN IF hit = {} THEN NoLike ELSE L[CHOOSE k \in hit : \A j \in hit : k <= j]

(* Like.findByIdAndDelete(_id): no entry with that _id is a no-op.          *)
RECURSIVE FindByIdAndDelete(_, _)
FindByIdAndDelete(L, id) ==
    IF L = << >> THEN << >>
    ELSE (IF Head(L)._id = id THEN << >> ELSE <<Head(L)>>)
         \o FindByIdAndDelete(Tail(L), id)

(* Variant: the collection has no unique index.                             *)
DuplicateKeyNoIndex(L, doc) == FALSE

(* The unique index { userId: 1, targetId: 1 }: an insert of doc conflicts  *)
(* when an entry with the same userId and targetId exists.                  *)
DuplicateKey(L, doc) ==
    \E k \in DOMAIN L : L[k].userId = doc.userId /\ L[k].targetId = doc.targetId

(* Variant: targetType is a free string.                                    *)
ValidTargetTypeAny(targetType) == TRUE

(* The model's enum validator on Like.targetType.                           *)
ValidTargetType(targetType) == targetType \in {"Post", "Comment"}

(* if (targetType === "Post") Post.findByIdAndUpdate(id, {$inc: {likesCount: d}})  *)
(* else Comment.findByIdAndUpdate(id, {$inc: {likesCount: d}}); an id that  *)
(* names no document of that collection updates nothing.                    *)
IncLikesCount(S, targetType, id, d) ==
    IF targetType = "Post"
    THEN IF id \in DOMAIN S.posts
         THEN [S EXCEPT !.posts[id].likesCount = @ + d] ELSE S
    ELSE IF id \in DOMAIN S.comments
         THEN [S EXCEPT !.comments[id].likesCount = @ + d] ELSE S

(* Post.findByIdAndUpdate(postId, {$inc: {commentsCount: 1}})               *)
IncCommentsCount(S, postId) ==
    IF postId \in DOMAIN S.posts
    THEN [S EXCEPT !.posts[postId].commentsCount = @ + 1] ELSE S

(* Comment.findByIdAndUpdate(rootCommentId, {$inc: {replyCount: 1}})        *)
IncReplyCount(S, rootCommentId) ==
    IF rootCommentId \in DOMAIN S.comments
    THEN [S EXCEPT !.comments[rootCommentId].replyCount = @ + 1] ELSE S

(* ------------------------------ requests ------------------------------- *)
(* A request: the handler's parameters, its position (pc) and its local     *)
(* variables, then its response (code, status, result).  rid numbers the     *)
(* react requests; the Like a request inserts gets _id = rid.  A request     *)
(* is created at the await it starts with: its arrival and that first store  *)
(* access are one step.                                                     *)
Idle ==
    [op |-> "idle", pc |-> "idle", user |-> Null, id |-> Null,
     targetType |-> "none", reactionType |-> "none", parentId |-> Null,
     content |-> FALSE, privacy |-> "none", rid |-> Null,
     existing |-> NoLike, rootCommentId |-> Null, replyToUserId |-> Null,
     newId |-> Null, err |-> "none", code |-> 0, status |-> "none",
     result |-> << >>, strictQuery |-> FALSE, skip |-> 0]

Respond(r, code, status) ==
    [r EXCEPT !.pc = "done", !.code = code, !.status = status,
              !.existing = NoLike]

(* catch (err) { res.status(500).json(...) }                                *)
Catch(r, err) == [Respond(r, 500, "Server error") EXCEPT !.err = err]

(* ---------------- PUT /api/react/:targetType/:id ----------------------- *)
ReactRequest(user, targetType, id, reactionType, rid) ==
    [Idle EXCEPT !.op = "react", !.pc = "findOne", !.user = user, !.id = id,
                 !.targetType = targetType, !.reactionType = reactionType,
                 !.rid = rid]

(* const existing = await Like.findOne({ userId, targetId: id, targetType }) *)
(* and the branch taken on it.                                              *)
ReactFindOne(S, r) ==
    LET existing == FindOneLike(S.likes, r.user, r.id, r.targetType)
    IN [S |-> S,
        r |-> [r EXCEPT !.existing = existing,
                        !.pc = IF existing # NoLike
                               THEN IF existing.type = r.reactionType
                                    THEN "delete" ELSE "saveExisting"
                               ELSE "insert"]]

(* await Like.findByIdAndDelete(existing._id)                               *)
ReactDelete(S, r) ==
    [S |-> [S EXCEPT !.likes = FindByIdAndDelete(S.likes, r.existing._id)],
     r |-> [r EXCEPT !.pc = "dec"]]

(* Variant: the toggle-off leaves the counter as it is.                     *)
ReactDecSkipsCounter(S, r) ==
    [S |-> S, r |-> Respond(r, 200, "removed")]

(* Variant: the toggle-off is always counted on the Comment collection.     *)
ReactDecOnComment(S, r) ==
    [S |-> IncLikesCount(S, "Comment", r.id, -1),
     r |-> Respond(r, 200, "removed")]

(* the $inc of -1 on the target, then { status: "removed" }                 *)
ReactDec(S, r) ==
    [S |-> IncLikesCount(S, r.targetType, r.id, -1),
     r |-> Respond(r, 200, "removed")]

(* Variant: the change of type is counted as one more reaction.             *)
ReactSaveExistingCounts(S, r, throws) ==
    LET hit == {k \in DOMAIN S.likes : S.likes[k]._id = r.existing._id}
        T == [S EXCEPT !.likes = [k \in DOMAIN S.likes |->
                  IF k \in hit
                  THEN [S.likes[k] EXCEPT !.type = TypeOrDefault(r.reactionType)]
                  ELSE S.likes[k]]]
    IN [S |-> IncLikesCount(T, r.targetType, r.id, 1),
        r |-> Respond(r, 200, "updated")]

(* existing.type = reactionType; await existing.save(): an update of the    *)
(* entry with existing._id.  When that entry is gone (deleted by a request  *)
(* that overlapped) nothing is written; whether save() then throws          *)
(* (DocumentNotFoundError) or resolves depends on the mongoose version:     *)
(* throws selects the outcome.                                              *)
ReactSaveExisting(S, r, throws) ==
    LET hit == {k \in DOMAIN S.likes : S.likes[k]._id = r.existing._id}
    IN IF hit # {}
       THEN [S |-> [S EXCEPT !.likes = [k \in DOMAIN S.likes |->
                        IF k \in hit
                        THEN [S.likes[k] EXCEPT !.type = TypeOrDefault(r.reactionType)]
                        ELSE S.likes[k]]],
             r |-> Respond(r, 200, "updated")]
       ELSE [S |-> S,
             r |-> IF throws THEN Catch(r, "DocumentNotFoundError")
                   ELSE Respond(r, 200, "updated")]

(* Variant: the insert and the count are one write.                         *)
ReactInsertAndCount(S, r) ==
    LET newLike == NewLike(r.rid, r.user, r.id, r.targetType,
                           TypeOrDefault(r.reactionType))
    IN IF ~ValidTargetType(r.targetType)
       THEN [S |-> S, r |-> Catch(r, "ValidationError")]
       ELSE IF DuplicateKey(S.likes, newLike)
       THEN [S |-> S, r |-> Catch(r, "E11000")]
       ELSE [S |-> IncLikesCount([S EXCEPT !.likes = Append(S.likes, newLike)],
                                 r.targetType, r.id, 1),
             r |-> Respond(r, 200, "added")]

(* const newLike = new Like({...}); await newLike.save(): validation, then  *)
(* the insert under the unique index; either failure goes to the catch.     *)
ReactInsert(S, r) ==
    LET newLike == NewLike(r.rid, r.user, r.id, r.targetType,
                           TypeOrDefault(r.reactionType))
    IN IF ~ValidTargetType(r.targetType)
       THEN [S |-> S, r |-> Catch(r, "ValidationError")]
       ELSE IF DuplicateKey(S.likes, newLike)
       THEN [S |-> S, r |-> Catch(r, "E11000")]
       ELSE [S |-> [S EXCEPT !.likes = Append(S.likes, newLike)],
             r |-> [r EXCEPT !.pc = "inc"]]

(* Variant: the new reaction is always counted on the Post collection.      *)
ReactIncOnPost(S, r) ==
    [S |-> IncLikesCount(S, "Post", r.id, 1),
     r |-> Respond(r, 200, "added")]

(* the $inc of +1 on the target, then { status: "added" }                   *)
ReactInc(S, r) ==
    [S |-> IncLikesCount(S, r.targetType, r.id, 1),
     r |-> Respond(r, 200, "added")]

(* The store call the handler awaits rejects (the store cannot be reached):  *)
(* nothing is written by it, and the catch answers 500.                     *)
ReactFail(S, r) == [S |-> S, r |-> Catch(r, "StoreError")]

(* ---------------- PUT /posts/:id/like ---------------------------------- *)
(* The handler kept from before the ledger was keyed by targetId.  Its      *)
(* filter and its document name a path postId that LikeSchema does not      *)
(* have.  What the filter then matches depends on mongoose's strictQuery,   *)
(* whose default differs between major versions; the request carries the    *)
(* setting of the deployment that serves it.                                *)
LegacyLikeRequest(user, postId, strictQuery, rid) ==
    [Idle EXCEPT !.op = "like", !.pc = "legacyFindOne", !.user = user,
                 !.id = postId, !.strictQuery = strictQuery, !.rid = rid]

(* const existingLike = await Like.findOne({ userId, postId }): with        *)
(* strictQuery the unknown path is dropped and the filter is { userId },     *)
(* matching the user's oldest entry on any target; without it the filter     *)
(* asks for a field no stored Like has and matches nothing.                 *)
LegacyFindOne(S, r) ==
    LET hit == IF r.strictQuery
               THEN {k \in DOMAIN S.likes : S.likes[k].userId = r.user}
               ELSE {}
        existingLike == IF hit = {} THEN NoLike
                        ELSE S.likes[CHOOSE k \in hit : \A j \in hit : k <= j]
    IN [S |-> S,
        r |-> [r EXCEPT !.existing = existingLike,
                        !.pc = IF existingLike # NoLike
                               THEN "legacyDelete" ELSE "legacyInsert"]]

(* await Like.findByIdAndDelete(existingLike._id)                           *)
LegacyDelete(S, r) ==
    [S |-> [S EXCEPT !.likes = FindByIdAndDelete(S.likes, r.existing._id)],
     r |-> [r EXCEPT !.pc = "legacyDec"]]

(* await Post.findByIdAndUpdate(postId, { $inc: { likesCount: -1 } });      *)
(* "Unliked"                                                                *)
LegacyDec(S, r) ==
    [S |-> IncLikesCount(S, "Post", r.id, -1),
     r |-> Respond(r, 200, "Unliked")]

(* The required paths of LikeSchema: targetId and targetType.               *)
RequiredPresent(doc) == doc.targetId # Null /\ doc.targetType # "none"

(* const newLike = new Like({ userId, postId }); await newLike.save(): the  *)
(* unknown path postId is dropped by the schema, targetId and targetType     *)
(* are left unset and type takes its default.                               *)
LegacyInsert(S, r) ==
    LET newLike == NewLike(r.rid, r.user, Null, "none", "Like")
    IN IF ~RequiredPresent(newLike)
       THEN [S |-> S, r |-> Catch(r, "ValidationError")]
       ELSE IF DuplicateKey(S.likes, newLike)
       THEN [S |-> S, r |-> Catch(r, "E11000")]
       ELSE [S |-> [S EXCEPT !.likes = Append(S.likes, newLike)],
             r |-> [r EXCEPT !.pc = "legacyInc"]]

(* await Post.findByIdAndUpdate(postId, { $inc: { likesCount: 1 } });       *)
(* "Liked".  No request gets here: the save before it always rejects.       *)
LegacyInc(S, r) ==
    [S |-> IncLikesCount(S, "Post", r.id, 1),
     r |-> Respond(r, 200, "Liked")]

(* ---------------- POST /posts/:id/comments ----------------------------- *)
(* if (parentId) the handler starts at Comment.findById(parentId), else at  *)
(* newComment.save() with rootCommentId = replyToUserId = null.             *)
CommentRequest(user, postId, parentId, content) ==
    [Idle EXCEPT !.op = "comment",
                 !.pc = IF parentId # Null THEN "findParent" ELSE "save",
                 !.user = user, !.id = postId, !.parentId = parentId,
                 !.content = content]

(* Variant: a parentId that names no comment is taken as no parentId.       *)
CommentFindParentAdoptsOrphan(S, r) ==
    IF r.parentId \notin DOMAIN S.comments
    THEN [S |-> S, r |-> [r EXCEPT !.pc = "save"]]
    ELSE LET parent == S.comments[r.parentId]
         IN [S |-> S,
             r |-> [r EXCEPT !.pc = "save",
                             !.rootCommentId = IF parent.parentComment # Null
                                               THEN parent.parentComment
                                               ELSE r.parentId,
                             !.replyToUserId = parent.userId]]

(* Variant: the new comment is attached to the comment named by parentId,  *)
(* whatever its depth.                                                      *)
CommentFindParentNested(S, r) ==
    IF r.parentId \notin DOMAIN S.comments
    THEN [S |-> S, r |-> Respond(r, 404, "Comment not found")]
    ELSE [S |-> S,
          r |-> [r EXCEPT !.pc = "save", !.rootCommentId = r.parentId,
                          !.replyToUserId = S.comments[r.parentId].userId]]

(* Variant: a reply to a reply tags the author of the root.                 *)
CommentFindParentTagsRoot(S, r) ==
    IF r.parentId \notin DOMAIN S.comments
    THEN [S |-> S, r |-> Respond(r, 404, "Comment not found")]
    ELSE LET parent == S.comments[r.parentId]
             root == IF parent.parentComment # Null
                     THEN parent.parentComment ELSE r.parentId
         IN [S |-> S,
             r |-> [r EXCEPT !.pc = "save", !.rootCommentId = root,
                             !.replyToUserId = S.comments[root].userId]]

(* const parent = await Comment.findById(parentId); 404 when there is none; *)
(* then the flattening: a parent that has a parent hands on its own root.   *)
CommentFindParent(S, r) ==
    IF r.parentId \notin DOMAIN S.comments
    THEN [S |-> S, r |-> Respond(r, 404, "Comment not found")]
    ELSE LET parent == S.comments[r.parentId]
         IN [S |-> S,
             r |-> [r EXCEPT !.pc = "save",
                             !.rootCommentId = IF parent.parentComment # Null
                                               THEN parent.parentComment
                                               ELSE r.parentId,
                             !.replyToUserId = parent.userId]]

(* The id the store gives the next Comment.                                 *)
NextCommentId(S) == MaxPosts + Cardinality(DOMAIN S.comments) + 1

(* const newComment = new Comment({...}); await newComment.save(): content   *)
(* is required, a validation failure goes to the catch.                     *)
CommentSave(S, r) ==
    IF ~r.content
    THEN [S |-> S, r |-> Catch(r, "ValidationError")]
    ELSE LET newId == NextCommentId(S)
             newComment == NewComment(r.id, r.user, r.rootCommentId, r.replyToUserId)
         IN [S |-> [S EXCEPT !.comments = (newId :> newComment) @@ @],
             r |-> [r EXCEPT !.pc = "incPost", !.newId = newId]]

(* Variant: the count is written from a read taken at the save, not         *)
(* incremented in place: commentsCount becomes the number of comments the    *)
(* post had when this request saved its own.                                *)
CommentIncPostFromSnapshot(S, r) ==
    [S |-> IF r.id \in DOMAIN S.posts
           THEN [S EXCEPT !.posts[r.id].commentsCount =
                    Cardinality({c \in DOMAIN S.comments :
                                    S.comments[c].postId = r.id /\ c <= r.newId})]
           ELSE S,
     r |-> [r EXCEPT !.pc = IF r.rootCommentId # Null THEN "incRoot" ELSE "populate"]]

(* Variant: only a root comment is counted on the post.                     *)
CommentIncPostRootsOnly(S, r) ==
    [S |-> IF r.rootCommentId = Null THEN IncCommentsCount(S, r.id) ELSE S,
     r |-> [r EXCEPT !.pc = IF r.rootCommentId # Null THEN "incRoot" ELSE "populate"]]

(* await Post.findByIdAndUpdate(postId, { $inc: { commentsCount: 1 } })     *)
CommentIncPost(S, r) ==
    [S |-> IncCommentsCount(S, r.id),
     r |-> [r EXCEPT !.pc = IF r.rootCommentId # Null THEN "incRoot" ELSE "populate"]]

(* Variant: the reply is counted on its root and also on the comment named  *)
(* by parentId, when that is another comment.                               *)
CommentIncRootAndParent(S, r) ==
    LET counted == IncReplyCount(S, r.rootCommentId)
    IN [S |-> IF r.parentId # r.rootCommentId
              THEN IncReplyCount(counted, r.parentId) ELSE counted,
        r |-> [r EXCEPT !.pc = "populate"]]

(* Variant: the reply is counted on the comment named by parentId.          *)
CommentIncRootCountsParent(S, r) ==
    [S |-> IncReplyCount(S, r.parentId),
     r |-> [r EXCEPT !.pc = "populate"]]

(* if (rootCommentId) await Comment.findByIdAndUpdate(rootCommentId, ...)   *)
CommentIncRoot(S, r) ==
    [S |-> IncReplyCount(S, r.rootCommentId),
     r |-> [r EXCEPT !.pc = "populate"]]

(* const populatedComment = await Comment.findById(newComment._id); 201     *)
CommentPopulate(S, r) ==
    [S |-> S,
     r |-> [Respond(r, 201, "created") EXCEPT !.result = <<S.comments[r.newId]>>]]

(* ---------------- POST /posts ------------------------------------------ *)
(* privacy: req.body.privacy || "public", then the enum validator of the    *)
(* model; "absent" stands for a body without the field.                     *)
PostRequest(user, privacy) ==
    [Idle EXCEPT !.op = "post", !.pc = "savePost", !.user = user,
                 !.privacy = privacy]

PostSave(S, r) ==
    LET privacy == IF r.privacy = "absent" THEN "public" ELSE r.privacy
        newId == Cardinality(DOMAIN S.posts) + 1
    IN IF privacy \notin {"public", "private"}
       THEN [S |-> S, r |-> Catch(r, "ValidationError")]
       ELSE [S |-> [S EXCEPT !.posts = (newId :> NewPost(r.user, privacy)) @@ @],
             r |-> [Respond(r, 201, "created") EXCEPT !.newId = newId]]

(* ---------------- GET /posts ------------------------------------------- *)
(* Variant: the filter without its clause for records that lack the field. *)
FeedFilterNoLegacy(post, currentUserId) ==
    \/ post.privacy = "public"
    \/ post.userId = currentUserId

(* filter = { $or: [ {privacy: "public"}, {privacy: {$exists: false}},      *)
(*                   {userId: currentUserId} ] }                            *)
FeedFilter(post, currentUserId) ==
    \/ post.privacy = "public"
    \/ post.privacy = "unset"
    \/ post.userId = currentUserId

(* The ids of set ids, largest first: .sort({ createdAt: -1 }), ids being   *)
(* given in creation order.                                                 *)
RECURSIVE NewestFirst(_)
NewestFirst(ids) ==
    IF ids = {} THEN << >>
    ELSE LET top == CHOOSE k \in ids : \A j \in ids : j <= k
         IN <<top>> \o NewestFirst(ids \ {top})

FeedRequest(user) ==
    [Idle EXCEPT !.op = "feed", !.pc = "findPosts", !.user = user]

(* const posts = await Post.find(filter).sort({ createdAt: -1 })            *)
FeedFind(S, r) ==
    LET ids == {k \in DOMAIN S.posts : FeedFilter(S.posts[k], r.user)}
        order == NewestFirst(ids)
    IN [S |-> S,
        r |-> [r EXCEPT !.pc = "decorate",
                        !.result = [k \in DOMAIN order |->
                                      [_id |-> order[k], doc |-> S.posts[order[k]]]]]]

(* The entries of L on a target, newest first.                              *)
RECURSIVE LikesOf(_, _, _)
LikesOf(L, targetId, targetType) ==
    IF L = << >> THEN << >>
    ELSE LikesOf(Tail(L), targetId, targetType)
         \o (IF Head(L).targetId = targetId /\ Head(L).targetType = targetType
             THEN <<Head(L)>> ELSE << >>)

Limit(s, n) == SubSeq(s, 1, IF Len(s) < n THEN Len(s) ELSE n)

(* postsWithData: per post, myLike and the three most recent likes.         *)
FeedDecorate(S, r) ==
    LET Decorated(item) ==
            LET myLike == FindOneLike(S.likes, r.user, item._id, "Post")
                recentLikes == Limit(LikesOf(S.likes, item._id, "Post"), 3)
            IN [_id |-> item._id, doc |-> item.doc,
                isLiked |-> myLike # NoLike,
                userReaction |-> IF myLike # NoLike THEN myLike.type ELSE "none",
                recentReactors |-> [k \in DOMAIN recentLikes |-> recentLikes[k].userId]]
    IN [S |-> S,
        r |-> [Respond(r, 200, "ok") EXCEPT
                  !.result = [k \in DOMAIN r.result |-> Decorated(r.result[k])]]]

(* ---------------- GET /posts/:id/comments, GET /comments/:id/replies --- *)
(* .limit(10): the page of root comments.                                   *)
PageSize == 10

(* .limit(5): the reactions sampled for topReactions; .slice(0, 2).         *)
SampleSize == 5

MaxDistinct == 2

(* .skip(n) on a sorted result.                                             *)
Skip(s, n) == SubSeq(s, n + 1, Len(s))

(* The ids of set ids, smallest first: .sort({ createdAt: 1 }).             *)
RECURSIVE OldestFirst(_)
OldestFirst(ids) ==
    IF ids = {} THEN << >>
    ELSE LET low == CHOOSE k \in ids : \A j \in ids : k <= j
         IN <<low>> \o OldestFirst(ids \ {low})

(* Variant: the two first sampled types, then their distinct values.        *)
DistinctTypesSliceFirst(types) ==
    LET cut == Limit(types, MaxDistinct)
    IN IF Len(cut) = 2 /\ cut[1] = cut[2] THEN <<cut[1]>> ELSE cut

(* [...new Set(types)]: the distinct values in order of first occurrence.   *)
RECURSIVE DistinctTypes(_)
DistinctTypes(types) ==
    IF types = << >> THEN << >>
    ELSE LET rest == DistinctTypes(SubSeq(types, 1, Len(types) - 1))
             last == types[Len(types)]
         IN IF last \in Range(rest) THEN rest ELSE Append(rest, last)

(* Variant: myLike is looked up by target alone.                            *)
DecorateCommentAnyone(S, currentUserId, item) ==
    LET mine == LikesOf(S.likes, item._id, "Comment")
        recentLikes == Limit(LikesOf(S.likes, item._id, "Comment"), SampleSize)
        types == [k \in DOMAIN recentLikes |-> recentLikes[k].type]
    IN [_id |-> item._id, doc |-> item.doc,
        isLiked |-> mine # << >>,
        userReaction |-> IF mine # << >> THEN mine[1].type ELSE "none",
        topReactions |-> Limit(DistinctTypes(types), MaxDistinct)]

(* The callback both handlers map over their comments: myLike, then the     *)
(* types of the five most recent likes, made distinct and cut to two.       *)
DecorateComment(S, currentUserId, item) ==
    LET myLike == FindOneLike(S.likes, currentUserId, item._id, "Comment")
        recentLikes == Limit(LikesOf(S.likes, item._id, "Comment"), SampleSize)
        types == [k \in DOMAIN recentLikes |-> recentLikes[k].type]
    IN [_id |-> item._id, doc |-> item.doc,
        isLiked |-> myLike # NoLike,
        userReaction |-> IF myLike # NoLike THEN myLike.type ELSE "none",
        topReactions |-> Limit(DistinctTypes(types), MaxDistinct)]

ListRootsRequest(user, postId, skip) ==
    [Idle EXCEPT !.op = "roots", !.pc = "findRoots", !.user = user,
                 !.id = postId, !.skip = skip]

(* Variant: the page is cut before the offset is applied.                   *)
ListRootsFindLimitFirst(S, r) ==
    LET ids == {c \in DOMAIN S.comments :
                   /\ S.comments[c].postId = r.id
                   /\ S.comments[c].parentComment = Null}
        order == Skip(Limit(NewestFirst(ids), PageSize), r.skip)
    IN [S |-> S,
        r |-> [r EXCEPT !.pc = "decorateRoots",
                        !.result = [k \in DOMAIN order |->
                                      [_id |-> order[k], doc |-> S.comments[order[k]]]]]]

(* await Comment.find({ postId, parentComment: null })                      *)
(*         .sort({ createdAt: -1 }).limit(10).skip(parseInt(skip)): the      *)
(* query skips, then limits, whatever the order of the two calls.           *)
ListRootsFind(S, r) ==
    LET ids == {c \in DOMAIN S.comments :
                   /\ S.comments[c].postId = r.id
                   /\ S.comments[c].parentComment = Null}
        order == Limit(Skip(NewestFirst(ids), r.skip), PageSize)
    IN [S |-> S,
        r |-> [r EXCEPT !.pc = "decorateRoots",
                        !.result = [k \in DOMAIN order |->
                                      [_id |-> order[k], doc |-> S.comments[order[k]]]]]]

(* commentsWithData = await Promise.all(comments.map(...)); 200             *)
ListRootsDecorate(S, r) ==
    [S |-> S,
     r |-> [Respond(r, 200, "ok") EXCEPT
               !.result = [k \in DOMAIN r.result |->
                             DecorateComment(S, r.user, r.result[k])]]]

ListRepliesRequest(user, commentId) ==
    [Idle EXCEPT !.op = "replies", !.pc = "findReplies", !.user = user,
                 !.id = commentId]

(* await Comment.find({ parentComment: req.params.id }).sort({ createdAt: 1 }) *)
ListRepliesFind(S, r) ==
    LET ids == {c \in DOMAIN S.comments : S.comments[c].parentComment = r.id}
        order == OldestFirst(ids)
    IN [S |-> S,
        r |-> [r EXCEPT !.pc = "decorateReplies",
                        !.result = [k \in DOMAIN order |->
                                      [_id |-> order[k], doc |-> S.comments[order[k]]]]]]

(* repliesWithData = await Promise.all(replies.map(...)); 200               *)
ListRepliesDecorate(S, r) ==
    [S |-> S,
     r |-> [Respond(r, 200, "ok") EXCEPT
               !.result = [k \in DOMAIN r.result |->
                             DecorateComment(S, r.user, r.result[k])]]]

(* ------------------------------ a handler, run alone -------------------- *)
(* The step a request is at.  ReactSaveExisting finds its entry whenever    *)
(* no other request runs in between, so its outcome flag is not used here.  *)
Step(S, r) ==
    CASE r.pc = "findOne" -> ReactFindOne(S, r)
      [] r.pc = "delete" -> ReactDelete(S, r)
      [] r.pc = "dec" -> ReactDec(S, r)
      [] r.pc = "saveExisting" -> ReactSaveExisting(S, r, TRUE)
      [] r.pc = "insert" -> ReactInsert(S, r)
      [] r.pc = "inc" -> ReactInc(S, r)
      [] r.pc = "legacyFindOne" -> LegacyFindOne(S, r)
      [] r.pc = "legacyDelete" -> LegacyDelete(S, r)
      [] r.pc = "legacyDec" -> LegacyDec(S, r)
      [] r.pc = "legacyInsert" -> LegacyInsert(S, r)
      [] r.pc = "legacyInc" -> LegacyInc(S, r)
      [] r.pc = "findParent" -> CommentFindParent(S, r)
      [] r.pc = "save" -> CommentSave(S, r)
      [] r.pc = "incPost" -> CommentIncPost(S, r)
      [] r.pc = "incRoot" -> CommentIncRoot(S, r)
      [] r.pc = "populate" -> CommentPopulate(S, r)
      [] r.pc = "savePost" -> PostSave(S, r)
      [] r.pc = "findPosts" -> FeedFind(S, r)
      [] r.pc = "decorate" -> FeedDecorate(S, r)
      [] r.pc = "findRoots" -> ListRootsFind(S, r)
      [] r.pc = "decorateRoots" -> ListRootsDecorate(S, r)
      [] r.pc = "findReplies" -> ListRepliesFind(S, r)
      [] r.pc = "decorateReplies" -> ListRepliesDecorate(S, r)

InFlight(r) == r.pc \notin {"idle", "done"}

(* The store and the response after request r has run from S to its end     *)
(* with no other request in between.                                        *)
RECURSIVE Run(_, _)
Run(S, r) ==
    IF ~InFlight(r) THEN [S |-> S, r |-> r]
    ELSE LET out == Step(S, r) IN Run(out.S, out.r)

(* ------------------------------ actions -------------------------------- *)
Slots == 1..MaxInFlight

FreeSlots == {i \in Slots : ~InFlight(reqs[i])}

(* The outcome of a step of the request in slot i: the store it leaves,     *)
(* and either the request at its next await or, when the handler has         *)
(* answered, its response in resp (the last response sent) and the slot      *)
(* free again.                                                              *)
Commit(i, out) ==
    /\ posts' = out.S.posts
    /\ comments' = out.S.comments
    /\ likes' = out.S.likes
    /\ IF out.r.pc = "done"
       THEN reqs' = [reqs EXCEPT ![i] = Idle] /\ resp' = out.r
       ELSE reqs' = [reqs EXCEPT ![i] = out.r] /\ UNCHANGED resp

(* A new request takes the lowest slot that holds no running request and    *)
(* does its first step.                                                     *)
Accept(r) ==
    /\ FreeSlots # {}
    /\ Commit(CHOOSE i \in FreeSlots : \A j \in FreeSlots : i <= j, Step(Store, r))

At(i, op, pc) == reqs[i].op = op /\ reqs[i].pc = pc

ExistingIds == DOMAIN posts \cup DOMAIN comments

(* An id that names no document.                                            *)
MissingId == MaxPosts + MaxComments + 1

StartReact ==
    /\ reactsStarted < MaxReacts
    /\ \E user \in Users, targetType \in TargetTypes, id \in ExistingIds,
          reactionType \in ReactionTypes :
          Accept(ReactRequest(user, targetType, id, reactionType, reactsStarted + 1))
    /\ reactsStarted' = reactsStarted + 1

(* A react call whose body has no reactionType.                              *)
StartReactUntyped ==
    /\ reactsStarted < MaxReacts
    /\ \E user \in Users, targetType \in TargetTypes, id \in ExistingIds :
          Accept(ReactRequest(user, targetType, id, Absent, reactsStarted + 1))
    /\ reactsStarted' = reactsStarted + 1

(* A react call whose :targetType is not a value of the enum.               *)
StartReactMalformed ==
    /\ reactsStarted < MaxReacts
    /\ \E user \in Users, id \in ExistingIds \cup {MissingId},
          reactionType \in ReactionTypes :
          Accept(ReactRequest(user, "Photo", id, reactionType, reactsStarted + 1))
    /\ reactsStarted' = reactsStarted + 1

DoReactDelete(i) ==
    /\ At(i, "react", "delete")
    /\ Commit(i, ReactDelete(Store, reqs[i]))
    /\ UNCHANGED reactsStarted

DoReactDec(i) ==
    /\ At(i, "react", "dec")
    /\ Commit(i, ReactDec(Store, reqs[i]))
    /\ UNCHANGED reactsStarted

DoReactSaveExisting(i) ==
    /\ At(i, "react", "saveExisting")
    /\ \E throws \in BOOLEAN : Commit(i, ReactSaveExisting(Store, reqs[i], throws))
    /\ UNCHANGED reactsStarted

DoReactInsert(i) ==
    /\ At(i, "react", "insert")
    /\ Commit(i, ReactInsert(Store, reqs[i]))
    /\ UNCHANGED reactsStarted

DoReactInc(i) ==
    /\ At(i, "react", "inc")
    /\ Commit(i, ReactInc(Store, reqs[i]))
    /\ UNCHANGED reactsStarted

DoReactFail(i) ==
    /\ reqs[i].op = "react" /\ InFlight(reqs[i])
    /\ Commit(i, ReactFail(Store, reqs[i]))
    /\ UNCHANGED reactsStarted

ReactSteps ==
    \E i \in Slots :
        \/ DoReactDelete(i)
        \/ DoReactDec(i)
        \/ DoReactSaveExisting(i)
        \/ DoReactInsert(i)
        \/ DoReactInc(i)

(* PUT /posts/:id/like arrives; it is numbered with the react requests.     *)
StartLegacyLike ==
    /\ reactsStarted < MaxReacts
    /\ \E user \in Users, postId \in DOMAIN posts, strictQuery \in BOOLEAN :
          Accept(LegacyLikeRequest(user, postId, strictQuery, reactsStarted + 1))
    /\ reactsStarted' = reactsStarted + 1

DoLegacyDelete(i) ==
    /\ At(i, "like", "legacyDelete")
    /\ Commit(i, LegacyDelete(Store, reqs[i]))
    /\ UNCHANGED reactsStarted

DoLegacyDec(i) ==
    /\ At(i, "like", "legacyDec")
    /\ Commit(i, LegacyDec(Store, reqs[i]))
    /\ UNCHANGED reactsStarted

DoLegacyInsert(i) ==
    /\ At(i, "like", "legacyInsert")
    /\ Commit(i, LegacyInsert(Store, reqs[i]))
    /\ UNCHANGED reactsStarted

LegacySteps ==
    \E i \in Slots :
        \/ DoLegacyDelete(i)
        \/ DoLegacyDec(i)
        \/ DoLegacyInsert(i)

(* Comments that exist or that a running request is still to save.          *)
CommentsClaimed ==
    Cardinality(DOMAIN comments)
    + Cardinality({i \in Slots : At(i, "comment", "save")})

StartComment ==
    /\ CommentsClaimed < MaxComments
    /\ \E user \in Users, postId \in DOMAIN posts,
          parentId \in {Null, MissingId} \cup DOMAIN comments, content \in BOOLEAN :
          Accept(CommentRequest(user, postId, parentId, content))
    /\ UNCHANGED reactsStarted

DoCommentSave(i) ==
    /\ At(i, "comment", "save")
    /\ Commit(i, CommentSave(Store, reqs[i]))
    /\ UNCHANGED reactsStarted

DoCommentIncPost(i) ==
    /\ At(i, "comment", "incPost")
    /\ Commit(i, CommentIncPost(Store, reqs[i]))
    /\ UNCHANGED reactsStarted

DoCommentIncRoot(i) ==
    /\ At(i, "comment", "incRoot")
    /\ Commit(i, CommentIncRoot(Store, reqs[i]))
    /\ UNCHANGED reactsStarted

DoCommentPopulate(i) ==
    /\ At(i, "comment", "populate")
    /\ Commit(i, CommentPopulate(Store, reqs[i]))
    /\ UNCHANGED reactsStarted

CommentSteps ==
    \E i \in Slots :
        \/ DoCommentSave(i)
        \/ DoCommentIncPost(i)
        \/ DoCommentIncRoot(i)
        \/ DoCommentPopulate(i)

StartPost ==
    /\ Cardinality(DOMAIN posts) < MaxPosts
    /\ \E user \in Users, privacy \in {"absent", "public", "private", "friends"} :
          Accept(PostRequest(user, privacy))
    /\ UNCHANGED reactsStarted

StartFeed ==
    /\ \E user \in Users : Accept(FeedRequest(user))
    /\ UNCHANGED reactsStarted

DoFeedDecorate(i) ==
    /\ At(i, "feed", "decorate")
    /\ Commit(i, FeedDecorate(Store, reqs[i]))
    /\ UNCHANGED reactsStarted

FeedSteps == \E i \in Slots : DoFeedDecorate(i)

(* The offsets asked for.                                                   *)
MaxSkip == 2

StartListRoots ==
    /\ \E user \in Users, postId \in DOMAIN posts, skip \in 0..MaxSkip :
          Accept(ListRootsRequest(user, postId, skip))
    /\ UNCHANGED reactsStarted

DoListRootsDecorate(i) ==
    /\ At(i, "roots", "decorateRoots")
    /\ Commit(i, ListRootsDecorate(Store, reqs[i]))
    /\ UNCHANGED reactsStarted

StartListReplies ==
    /\ \E user \in Users, commentId \in DOMAIN comments :
          Accept(ListRepliesRequest(user, commentId))
    /\ UNCHANGED reactsStarted

DoListRepliesDecorate(i) ==
    /\ At(i, "replies", "decorateReplies")
    /\ Commit(i, ListRepliesDecorate(Store, reqs[i]))
    /\ UNCHANGED reactsStarted

ListSteps ==
    \E i \in Slots :
        \/ DoListRootsDecorate(i)
        \/ DoListRepliesDecorate(i)

(* ------------------------------ specifications ------------------------- *)
(* The store after construction: empty but for one post written before the  *)
(* privacy field existed.                                                   *)
Init ==
    /\ posts = (1 :> NewPost(1, "unset"))
    /\ comments = << >>
    /\ likes = << >>
    /\ reqs = [i \in Slots |-> Idle]
    /\ resp = Idle
    /\ reactsStarted = 0

Next ==
    \/ StartPost
    \/ StartFeed
    \/ FeedSteps
    \/ StartComment
    \/ CommentSteps
    \/ StartReact
    \/ StartReactMalformed
    \/ StartReactUntyped
    \/ ReactSteps
    \/ (\E i \in Slots : DoReactFail(i))
    \/ StartLegacyLike
    \/ LegacySteps
    \/ StartListRoots
    \/ StartListReplies
    \/ ListSteps

Spec == Init /\ [][Next]_vars

(* The ledger on the store of Init after one POST /posts/1/comments: the    *)
(* post and one root comment on it.                                         *)
InitLedger ==
    /\ posts = (1 :> [NewPost(1, "unset") EXCEPT !.commentsCount = 1])
    /\ comments = ((MaxPosts + 1) :> NewComment(1, 2, Null, Null))
    /\ likes = << >>
    /\ reqs = [i \in Slots |-> Idle]
    /\ resp = Idle
    /\ reactsStarted = 0

NextLedger == StartReact \/ ReactSteps

SpecLedger == InitLedger /\ [][NextLedger]_vars

(* The ledger with both of its write paths: the generic one and the one     *)
(* keyed by post.                                                           *)
NextLegacy == StartReact \/ ReactSteps \/ StartLegacyLike \/ LegacySteps

SpecLegacy == InitLedger /\ [][NextLegacy]_vars

(* The thread engine: comments on the posts of Init.                        *)
NextThread == StartComment \/ CommentSteps

SpecThread == Init /\ [][NextThread]_vars

(* The thread engine on two posts: comments on either post, with parentId   *)
(* any stored comment, of either post.                                      *)
InitForum ==
    /\ posts = (1 :> NewPost(1, "unset")) @@ (2 :> NewPost(2, "public"))
    /\ comments = << >>
    /\ likes = << >>
    /\ reqs = [i \in Slots |-> Idle]
    /\ resp = Idle
    /\ reactsStarted = 0

SpecForum == InitForum /\ [][NextThread]_vars

(* The feed: posts are created and listed.                                  *)
NextFeed == StartPost \/ StartFeed \/ FeedSteps

SpecFeed == Init /\ [][NextFeed]_vars

(* The two listings of comments.                                            *)
NextLists == StartListRoots \/ StartListReplies \/ ListSteps

(* The store of Init as one value, and that store after a root comment by   *)
(* user 2 and a reply to it by user 1.                                      *)
InitStore ==
    [posts |-> (1 :> NewPost(1, "unset")), comments |-> << >>, likes |-> << >>]

ThreadStore ==
    LET root == Run(InitStore, CommentRequest(2, 1, Null, TRUE))
    IN Run(root.S, CommentRequest(1, 1, root.r.newId, TRUE)).S

(* The reactions sampled: up to MaxSample users, each reacting once, with   *)
(* types among SampleTypes (type is a free string of LikeSchema).           *)
MaxSample == 6

SampleTypes == {"Like", "Haha", "Love"}

(* The store after users k..Len(types) have reacted in turn to comment c,   *)
(* user j with types[j].                                                    *)
RECURSIVE ReactInTurn(_, _, _, _)
ReactInTurn(S, c, types, k) ==
    IF k > Len(types) THEN S
    ELSE ReactInTurn(Run(S, ReactRequest(k, "Comment", c, types[k], k)).S,
                     c, types, k + 1)

(* A thread of two comments, whose root has been reacted to by up to        *)
(* MaxSample users.                                                         *)
InitTop ==
    /\ \E c \in {k \in DOMAIN ThreadStore.comments :
                    ThreadStore.comments[k].parentComment = Null},
          n \in 0..MaxSample :
          \E types \in [1..n -> SampleTypes] :
              LET S == ReactInTurn(ThreadStore, c, types, 1)
              IN /\ posts = S.posts
                 /\ comments = S.comments
                 /\ likes = S.likes
                 /\ reactsStarted = n
    /\ reqs = [i \in Slots |-> Idle]
    /\ resp = Idle

(* The listing of root comments.                                            *)
NextRoots == StartListRoots \/ (\E i \in Slots : DoListRootsDecorate(i))

SpecTop == InitTop /\ [][NextRoots]_vars

(* The react calls behind the ledgers that are listed.                      *)
MaxDecorated == 2

(* The stores after k-1 react calls have led to S and up to n - k + 1 more  *)
(* follow, each by any user on any document under any type, run in turn;    *)
(* each with the number of calls made.                                      *)
RECURSIVE LedgerStores(_, _, _)
LedgerStores(S, k, n) ==
    {[S |-> S, started |-> k - 1]}
    \cup (IF k > n THEN {}
          ELSE UNION {LedgerStores(
                          Run(S, ReactRequest(user, targetType, id, reactionType, k)).S,
                          k + 1, n) :
                      user \in Users, targetType \in TargetTypes,
                      id \in DOMAIN S.posts \cup DOMAIN S.comments,
                      reactionType \in ReactionTypes})

(* A post, a root comment and a reply, after up to MaxDecorated react       *)
(* calls.                                                                   *)
InitDecor ==
    /\ \E led \in LedgerStores(ThreadStore, 1, MaxDecorated) :
          /\ posts = led.S.posts
          /\ comments = led.S.comments
          /\ likes = led.S.likes
          /\ reactsStarted = led.started
    /\ reqs = [i \in Slots |-> Idle]
    /\ resp = Idle

(* The three listings: the feed, the root comments, the replies.            *)
NextDecor == StartFeed \/ FeedSteps \/ NextLists

SpecDecor == InitDecor /\ [][NextDecor]_vars

(* The comments behind the pages that are listed.                           *)
MaxListed == 12

(* The store of Init after user 2 has created a public post.                *)
TwoPosts == Run(InitStore, PostRequest(2, "public")).S

(* The store after comments k..n have been added to S in turn: each a root  *)
(* comment on post 1, but for comment odd, which is of kind "reply" (to the  *)
(* comment added before it) or "other" (a root comment on post 2).          *)
RECURSIVE Commented(_, _, _, _, _)
Commented(S, k, n, odd, kind) ==
    IF k > n THEN S
    ELSE LET last == MaxPosts + Cardinality(DOMAIN S.comments)
             r == IF k # odd THEN CommentRequest(1, 1, Null, TRUE)
                  ELSE IF kind = "other" THEN CommentRequest(2, 2, Null, TRUE)
                  ELSE CommentRequest(2, 1, last, TRUE)
         IN Commented(Run(S, r).S, k + 1, n, odd, kind)

InitPage ==
    /\ \E n \in 0..MaxListed, odd \in 0..MaxListed, kind \in {"reply", "other"} :
          LET S == Commented(TwoPosts, 1, n, odd, kind)
          IN /\ posts = S.posts
             /\ comments = S.comments
             /\ likes = S.likes
    /\ reqs = [i \in Slots |-> Idle]
    /\ resp = Idle
    /\ reactsStarted = 0

SpecPage == InitPage /\ [][NextRoots]_vars

(* The ledger on two posts and a thread of two comments: the store of       *)
(* TwoPosts after a root comment on post 1 and a reply to it.               *)
InitDispatch ==
    /\ LET root == Run(TwoPosts, CommentRequest(2, 1, Null, TRUE))
           S == Run(root.S, CommentRequest(1, 1, root.r.newId, TRUE)).S
       IN /\ posts = S.posts
          /\ comments = S.comments
          /\ likes = S.likes
    /\ reqs = [i \in Slots |-> Idle]
    /\ resp = Idle
    /\ reactsStarted = 0

SpecDispatch == InitDispatch /\ [][NextLedger]_vars

(* The ledger, called with well-formed and with malformed target types.     *)
NextReject == StartReact \/ StartReactMalformed \/ ReactSteps

SpecReject == InitLedger /\ [][NextReject]_vars

(* The ledger, called with and without a reactionType in the body.          *)
NextDefault == StartReact \/ StartReactUntyped \/ ReactSteps

SpecDefault == InitLedger /\ [][NextDefault]_vars

(* The ledger on a store whose calls can fail.                              *)
NextFaults == StartReact \/ ReactSteps \/ (\E i \in Slots : DoReactFail(i))

SpecFaults == InitLedger /\ [][NextFaults]_vars

(* ------------------------------ properties ----------------------------- *)
(* The last response is that of a comment that was created.                 *)
CommentCreated == resp.op = "comment" /\ resp.code = 201

Replies(C, root) == {c \in DOMAIN C : C[c].parentComment = root}

(* C1 - I1 (flattening): every persisted Comment's parentComment is null or *)
(* the id of a persisted Comment whose own parentComment is null.           *)
C1_Flattening ==
    \A c \in DOMAIN comments :
        \/ comments[c].parentComment = Null
        \/ /\ comments[c].parentComment \in DOMAIN comments
           /\ comments[comments[c].parentComment].parentComment = Null

(* A reply whose parentId named a reply has been persisted.                 *)
C1_Witness ==
    /\ CommentCreated
    /\ resp.parentId \in DOMAIN comments
    /\ comments[resp.parentId].parentComment # Null
    /\ comments[resp.newId].parentComment # Null

(* A request that has saved a reply under root and not yet counted it.     *)
CountingReply(i, root) ==
    /\ reqs[i].op = "comment"
    /\ reqs[i].pc \in {"incPost", "incRoot"}
    /\ reqs[i].rootCommentId = root

Roots(C) == {c \in DOMAIN C : C[c].parentComment = Null}

(* The stores after k more comments, each by any user with parentId the     *)
(* root or one of the replies under it so far, each request run alone.      *)
RECURSIVE AfterReplies(_, _, _)
AfterReplies(S, root, k) ==
    IF k = 0 THEN {S}
    ELSE UNION {AfterReplies(
                    Run(S, CommentRequest(user, S.comments[root].postId, parentId, TRUE)).S,
                    root, k - 1) :
                user \in Users, parentId \in {root} \cup Replies(S.comments, root)}

(* C7 - reply-count correspondence: after a root comment R and then K       *)
(* replies, each made to R or to any reply of R, R's replyCount is K.        *)
(* Stated of every way to add K replies to a root that has none, and of      *)
(* every state of the store: a root's replyCount is the number of replies    *)
(* under it once the requests that saved them have counted them.            *)
C7_ReplyCount ==
    \A root \in Roots(comments) :
        (\A i \in Slots : ~CountingReply(i, root)) =>
            /\ comments[root].replyCount = Cardinality(Replies(comments, root))
            /\ Replies(comments, root) = {} =>
                  \A K \in 0..(MaxComments - Cardinality(DOMAIN comments)) :
                      \A after \in AfterReplies(Store, root, K) :
                          after.comments[root].replyCount = K

(* A root with two replies, one of them made to the other.                  *)
C7_Witness ==
    \E root \in DOMAIN comments :
        /\ comments[root].parentComment = Null
        /\ comments[root].replyCount = 2
        /\ \A j \in Slots : ~InFlight(reqs[j])
        /\ CommentCreated
        /\ resp.parentId \in Replies(comments, root)

(* C8 - flattening scenario: a comment made with parentId A, A a reply to   *)
(* root R, is persisted with parentComment R and replyToUser A's author; a   *)
(* comment made with parentId R has parentComment R and replyToUser R's      *)
(* author; a comment made without parentId has both null.                   *)
C8_Scenario ==
    CommentCreated =>
            LET new == comments[resp.newId]
                parentId == resp.parentId
            IN IF parentId = Null
               THEN new.parentComment = Null /\ new.replyToUser = Null
               ELSE IF comments[parentId].parentComment = Null
               THEN /\ new.parentComment = parentId
                    /\ new.replyToUser = comments[parentId].userId
               ELSE /\ new.parentComment = comments[parentId].parentComment
                    /\ new.parentComment # parentId
                    /\ new.replyToUser = comments[parentId].userId

(* B was made in reply to A, whose author is not the author of the root.    *)
C8_Witness ==
    /\ CommentCreated
    /\ resp.parentId # Null
    /\ LET A == comments[resp.parentId]
           B == comments[resp.newId]
       IN /\ A.parentComment # Null
          /\ B.parentComment = A.parentComment
          /\ A.userId # comments[A.parentComment].userId
          /\ B.replyToUser = A.userId

(* ---- the reaction ledger ---- *)
(* The targets that exist: a post with type "Post", a comment with type     *)
(* "Comment".                                                               *)
Targets(S) ==
    {[id |-> id, type |-> "Post"] : id \in DOMAIN S.posts}
    \cup {[id |-> id, type |-> "Comment"] : id \in DOMAIN S.comments}

LikesCount(S, T) ==
    IF T.type = "Post" THEN S.posts[T.id].likesCount
    ELSE S.comments[T.id].likesCount

(* The ledger entries of user U on target id, and all entries on it.        *)
EntriesOf(L, U, id) == {k \in DOMAIN L : L[k].userId = U /\ L[k].targetId = id}

EntriesOn(L, id) == {k \in DOMAIN L : L[k].targetId = id}

(* react(U, T, type) run alone from store S; n numbers the call.            *)
React(S, U, T, type, n) ==
    Run(S, ReactRequest(U, T.type, T.id, type, reactsStarted + n))

(* C2 - I2 (uniqueness): at most one Reaction record exists for any user    *)
(* and target, also when calls for the same pair overlap and race to        *)
(* create.                                                                  *)
C2_Uniqueness ==
    \A U \in Users, id \in ExistingIds :
        Cardinality(EntriesOf(likes, U, id)) <= 1

(* Two calls of one user on one target both found no entry; one has         *)
(* created it and the insert of the other has hit the index.                *)
C2_Witness ==
    \E j \in Slots :
        /\ resp.op = "react" /\ resp.err = "E11000"
        /\ reqs[j].op = "react" /\ reqs[j].user = resp.user
        /\ reqs[j].id = resp.id /\ reqs[j].targetType = resp.targetType
        /\ reqs[j].pc = "inc"
        /\ Cardinality(EntriesOf(likes, resp.user, resp.id)) = 1

(* The last response is that of a react whose insert hit the unique index   *)
(* on the entry another call of the same user made on the same target.     *)
RacedToCreate ==
    /\ resp.op = "react"
    /\ resp.err = "E11000"
    /\ \E k \in DOMAIN likes :
          /\ likes[k].userId = resp.user
          /\ likes[k].targetId = resp.id
          /\ likes[k].targetType = resp.targetType

(* C3 - a call that raced to create and whose insert hit the uniqueness     *)
(* conflict is answered with one of added / updated / removed, not with an   *)
(* error.                                                                   *)
C3_ConflictResolved ==
    RacedToCreate => resp.status \in {"added", "updated", "removed"}

(* C4 - toggle law: with no reaction of U on T, react(U,T,"Like") twice     *)
(* returns removed the second time, leaves no record for (U,T) and leaves    *)
(* T's likesCount at its value before the first call.                       *)
C4_ToggleLaw ==
    \A U \in Users, T \in Targets(Store) :
        EntriesOf(likes, U, T.id) = {} =>
            LET first == React(Store, U, T, "Like", 1)
                second == React(first.S, U, T, "Like", 2)
            IN /\ first.r.status = "added"
               /\ second.r.status = "removed"
               /\ EntriesOf(second.S.likes, U, T.id) = {}
               /\ LikesCount(second.S, T) = LikesCount(Store, T)

(* A second Like has been answered removed and no record is left.           *)
C4_Witness ==
    /\ resp.op = "react"
    /\ resp.reactionType = "Like" /\ resp.status = "removed"
    /\ EntriesOf(likes, resp.user, resp.id) = {}
    /\ [id |-> resp.id, type |-> resp.targetType] \in Targets(Store)
    /\ reactsStarted = 2

(* C5 - type-change law: with no reaction of U on T, react(U,T,"Like") then *)
(* react(U,T,"Haha") returns updated, leaves exactly one record for (U,T),   *)
(* of type "Haha", and the second call leaves T's likesCount unchanged.     *)
C5_TypeChangeLaw ==
    \A U \in Users, T \in Targets(Store) :
        EntriesOf(likes, U, T.id) = {} =>
            LET first == React(Store, U, T, "Like", 1)
                second == React(first.S, U, T, "Haha", 2)
                left == EntriesOf(second.S.likes, U, T.id)
            IN /\ second.r.status = "updated"
               /\ Cardinality(left) = 1
               /\ \A k \in left : second.S.likes[k].type = "Haha"
               /\ LikesCount(second.S, T) = LikesCount(first.S, T)

(* A Like has been changed to Haha: one record, counted once.               *)
C5_Witness ==
    /\ resp.op = "react"
    /\ resp.reactionType = "Haha" /\ resp.status = "updated"
    /\ reactsStarted = 2
    /\ \E T \in Targets(Store) :
          /\ T.id = resp.id /\ T.type = resp.targetType
          /\ LikesCount(Store, T) = 1
          /\ Cardinality(EntriesOf(likes, resp.user, T.id)) = 1
          /\ \A k \in EntriesOf(likes, resp.user, T.id) : likes[k].type = "Haha"

(* The store after the users of who have each called react(.,T,"Like").     *)
RECURSIVE ReactEach(_, _, _, _)
ReactEach(S, who, T, n) ==
    IF who = << >> THEN S
    ELSE ReactEach(React(S, Head(who), T, "Like", n).S, Tail(who), T, n + 1)

(* The sequences of distinct users.                                         *)
DistinctUsers ==
    {who \in UNION {[1..n -> Users] : n \in 1..NumUsers} :
        \A a, b \in DOMAIN who : a # b => who[a] # who[b]}

(* C6 - counter correspondence: on a target T with likesCount 0 and no      *)
(* reactions, after N distinct users have each called react(Ui,T,"Like")    *)
(* once, T's likesCount is N and the ledger holds N entries for T.          *)
C6_CounterCorrespondence ==
    \A T \in Targets(Store) :
        (LikesCount(Store, T) = 0 /\ EntriesOn(likes, T.id) = {}) =>
            \A who \in DistinctUsers :
                LET after == ReactEach(Store, who, T, 1)
                IN /\ LikesCount(after, T) = Len(who)
                   /\ Cardinality(EntriesOn(after.likes, T.id)) = Len(who)
                   /\ \A k \in EntriesOn(after.likes, T.id) :
                         after.likes[k].targetType = T.type

(* Every user has liked one target once, and nothing else has happened.     *)
C6_Witness ==
    \E T \in Targets(Store) :
        /\ reactsStarted = NumUsers
        /\ \A i \in Slots : ~InFlight(reqs[i])
        /\ LikesCount(Store, T) = NumUsers
        /\ Cardinality(EntriesOn(likes, T.id)) = NumUsers
        /\ \A k \in EntriesOn(likes, T.id) :
              likes[k].type = "Like" /\ likes[k].targetType = T.type

(* C10 - no counter of a Post or of a Comment is ever below zero.           *)
C10_CountersNonNegative ==
    /\ \A p \in DOMAIN posts :
          posts[p].likesCount >= 0 /\ posts[p].commentsCount >= 0
    /\ \A c \in DOMAIN comments :
          comments[c].likesCount >= 0 /\ comments[c].replyCount >= 0

(* ---- the feed ---- *)
Listed(result) == {result[k]._id : k \in DOMAIN result}

(* C9 - visibility: the feed listed for viewer V holds post P exactly when  *)
(* P is public, or has no privacy, or is V's own; the decoration of the      *)
(* list neither adds nor drops a post.                                      *)
C9_Visibility ==
    [][\A i \in Slots :
          /\ (reqs'[i] # reqs[i] /\ reqs'[i].op = "feed" /\ reqs'[i].pc = "decorate")
             => \A P \in DOMAIN posts :
                   P \in Listed(reqs'[i].result)
                   <=> \/ posts[P].privacy = "public"
                       \/ posts[P].privacy = "unset"
                       \/ posts[P].userId = reqs'[i].user
          /\ (reqs[i].op = "feed" /\ reqs[i].pc = "decorate" /\ reqs'[i] # reqs[i])
             => /\ resp'.op = "feed" /\ resp'.user = reqs[i].user
                /\ resp'.code = 200
                /\ Listed(resp'.result) = Listed(reqs[i].result)
      ]_vars

(* A feed answered to a viewer lists a post made after a private post of    *)
(* another user, and not that private post.                                 *)
C9_Witness ==
    \E P, Q \in DOMAIN posts :
        /\ resp.op = "feed" /\ resp.code = 200
        /\ posts[P].privacy = "private"
        /\ posts[P].userId # resp.user
        /\ P < Q
        /\ Q \in Listed(resp.result)
        /\ P \notin Listed(resp.result)

(* ---- counters and rejections ---- *)
(* No handler is between two of its awaits.                                 *)
Quiescent == \A i \in Slots : ~InFlight(reqs[i])

(* The ledger entries for target T: its id under its own type.              *)
EntriesFor(L, T) ==
    {k \in DOMAIN L : L[k].targetId = T.id /\ L[k].targetType = T.type}

(* C11 - counters are eventually exact: whenever no react request is in     *)
(* flight (and none has failed between its two writes), each target's        *)
(* likesCount is the number of ledger entries for that target, whatever the  *)
(* interleaving of the react calls that led there.                          *)
C11_EventuallyExact ==
    Quiescent =>
        \A T \in Targets(Store) :
            LikesCount(Store, T) = Cardinality(EntriesFor(likes, T))

(* The ids that name no comment.                                            *)
NoCommentIds == (PostIds \cup CommentIds \cup {MissingId}) \ DOMAIN comments

(* C12 - addComment with a parentId that references no existing comment is  *)
(* rejected with NotFound (404 "Comment not found") and leaves the store      *)
(* unchanged: no Comment persisted, no commentsCount or replyCount changed.  *)
C12_MissingParent ==
    \A user \in Users, postId \in DOMAIN posts, parentId \in NoCommentIds,
       content \in BOOLEAN :
        LET out == Run(Store, CommentRequest(user, postId, parentId, content))
        IN /\ out.r.code = 404
           /\ out.r.status = "Comment not found"
           /\ out.S = Store

(* A comment with a missing parent has been answered 404 on a store that    *)
(* holds comments.                                                          *)
C12_Witness ==
    /\ resp.op = "comment" /\ resp.code = 404
    /\ resp.parentId \in NoCommentIds
    /\ comments # << >>
    /\ Quiescent

CommentsOn(C, postId) == {c \in DOMAIN C : C[c].postId = postId}

(* A request that has saved a comment on the post and not yet counted it.   *)
CountingComment(i, postId) ==
    /\ reqs[i].op = "comment"
    /\ reqs[i].pc = "incPost"
    /\ reqs[i].id = postId

(* C13 - every successful addComment on post P increments P.commentsCount   *)
(* by exactly 1, root or reply alike; so P.commentsCount, which starts at 0, *)
(* is the number of persisted Comments on P once the requests that saved     *)
(* them have counted them.                                                  *)
C13_CommentsCount ==
    \A P \in DOMAIN posts :
        /\ (\A i \in Slots : ~CountingComment(i, P)) =>
               posts[P].commentsCount = Cardinality(CommentsOn(comments, P))
        /\ \A user \in Users, parentId \in {Null} \cup DOMAIN comments :
               LET out == Run(Store, CommentRequest(user, P, parentId, TRUE))
               IN /\ out.r.code = 201
                  /\ out.S.posts[P].commentsCount = posts[P].commentsCount + 1
                  /\ Cardinality(CommentsOn(out.S.comments, P))
                        = Cardinality(CommentsOn(comments, P)) + 1

(* MaxComments comments, a reply among them, all counted on their post.     *)
C13_Witness ==
    \E P \in DOMAIN posts :
        /\ Quiescent /\ CommentCreated
        /\ posts[P].commentsCount = MaxComments
        /\ Cardinality(CommentsOn(comments, P)) = MaxComments
        /\ \E c \in CommentsOn(comments, P) : comments[c].parentComment # Null

(* ---- the path keyed by post ---- *)
(* C14 - the legacy like path is an alias of the generic path: from every   *)
(* reachable state, for every user U and post P, PUT /posts/P/like leaves    *)
(* the same ledger and the same P.likesCount as react(U, P, Post, "Like"),   *)
(* answering Liked where react answers added and Unliked where it answers    *)
(* removed.                                                                 *)
C14_LegacyAlias ==
    \A U \in Users, P \in DOMAIN posts, strictQuery \in BOOLEAN :
        LET legacy == Run(Store, LegacyLikeRequest(U, P, strictQuery, reactsStarted + 1))
            generic == Run(Store, ReactRequest(U, "Post", P, "Like", reactsStarted + 1))
        IN /\ legacy.S.likes = generic.S.likes
           /\ legacy.S.posts[P].likesCount = generic.S.posts[P].likesCount
           /\ generic.r.status = "added" <=> legacy.r.status = "Liked"
           /\ generic.r.status = "removed" <=> legacy.r.status = "Unliked"

(* ---- the listings of comments ---- *)
(* The last response is a listing of comments.                              *)
CommentsListed == resp.op \in {"roots", "replies"} /\ resp.code = 200

(* The ledger positions of the 5 most recent reactions on comment c (a     *)
(* later position is a more recent reaction).                               *)
Sampled(L, c) ==
    LET on == {k \in DOMAIN L : L[k].targetId = c /\ L[k].targetType = "Comment"}
    IN {k \in on : Cardinality({j \in on : j > k}) < 5}

(* The most recent sampled reaction of type t.                              *)
Newest(L, c, t) ==
    CHOOSE k \in Sampled(L, c) :
        /\ L[k].type = t
        /\ \A j \in Sampled(L, c) : L[j].type = t => j <= k

SampledTypes(L, c) == {L[k].type : k \in Sampled(L, c)}

(* C15 - topReactions of a comment: the distinct types among its 5 most     *)
(* recent reactions, in order of first occurrence newest first, cut to at    *)
(* most 2; never a duplicate, never a type that is not among those 5.        *)
C15_TopReactions ==
    CommentsListed =>
        \A n \in DOMAIN resp.result :
            LET c == resp.result[n]._id
                top == resp.result[n].topReactions
                all == SampledTypes(likes, c)
            IN /\ \A k \in DOMAIN top : top[k] \in all
               /\ \A j, k \in DOMAIN top : j # k => top[j] # top[k]
               /\ Len(top) = IF Cardinality(all) < 2 THEN Cardinality(all) ELSE 2
               /\ \A j, k \in DOMAIN top :
                     j < k => Newest(likes, c, top[j]) > Newest(likes, c, top[k])
               /\ \A t \in all :
                     (\A k \in DOMAIN top : top[k] # t) =>
                         \A k \in DOMAIN top :
                             Newest(likes, c, t) < Newest(likes, c, top[k])

(* A comment listed with two types although its five most recent reactions  *)
(* hold three and a sixth, older reaction holds the type listed first.       *)
C15_Witness ==
    /\ CommentsListed
    /\ \E n \in DOMAIN resp.result :
          LET c == resp.result[n]._id
              top == resp.result[n].topReactions
          IN /\ Cardinality({k \in DOMAIN likes : likes[k].targetId = c}) = MaxSample
             /\ Cardinality(SampledTypes(likes, c)) = 3
             /\ Len(top) = 2
             /\ likes[Len(likes)].type = top[1]
             /\ likes[Len(likes) - 1].type = top[1]
             /\ likes[Len(likes) - 2].type = top[2]

(* The last response is a listing of posts or of comments.                  *)
ItemsListed == resp.op \in {"feed", "roots", "replies"} /\ resp.code = 200

(* The ledger entries of viewer V on a listed item, under the item's type.  *)
EntriesOfViewer(L, V, item, op) ==
    {k \in DOMAIN L :
        /\ L[k].userId = V
        /\ L[k].targetId = item._id
        /\ L[k].targetType = IF op = "feed" THEN "Post" ELSE "Comment"}

(* C16 - decoration reflects the ledger: for every item listed to viewer V  *)
(* (a post of the feed, a root comment, a reply), isLiked holds exactly when *)
(* the ledger has a reaction of V on the item under the item's type, and     *)
(* userReaction is that reaction's type, or none when there is none.         *)
C16_Decoration ==
    ItemsListed =>
        \A n \in DOMAIN resp.result :
            LET item == resp.result[n]
                mine == EntriesOfViewer(likes, resp.user, item, resp.op)
            IN /\ item.isLiked <=> mine # {}
               /\ mine = {} => item.userReaction = "none"
               /\ \A k \in mine : item.userReaction = likes[k].type

(* A comment listed to a viewer who has not reacted to it, while another    *)
(* user has; and the same listing shows it unmarked.                        *)
C16_Witness ==
    /\ CommentsListed
    /\ \E n \in DOMAIN resp.result :
          LET item == resp.result[n]
          IN /\ ~item.isLiked /\ item.userReaction = "none"
             /\ \E k \in DOMAIN likes :
                   /\ likes[k].targetId = item._id
                   /\ likes[k].targetType = "Comment"
                   /\ likes[k].userId # resp.user
    /\ \E k \in DOMAIN likes : likes[k].userId = resp.user

(* The root comments of a post, and how many of them are newer than c.      *)
RootsOf(C, postId) ==
    {c \in DOMAIN C : C[c].postId = postId /\ C[c].parentComment = Null}

NewerRoots(C, c) == Cardinality({d \in RootsOf(C, C[c].postId) : d > c})

(* C17 - listRootComments(postId, offset) returns only comments of that     *)
(* post whose parentComment is null, newest first, skipping the first        *)
(* offset of them and returning at most 10; never a reply.                   *)
C17_RootsPage ==
    (resp.op = "roots" /\ resp.code = 200) =>
        LET page == resp.result
        IN /\ {page[k]._id : k \in DOMAIN page}
                = {c \in RootsOf(comments, resp.id) :
                      /\ NewerRoots(comments, c) >= resp.skip
                      /\ NewerRoots(comments, c) < resp.skip + 10}
           /\ \A j, k \in DOMAIN page : j < k => page[j]._id > page[k]._id
           /\ Len(page) <= 10
           /\ \A k \in DOMAIN page :
                 /\ page[k].doc.parentComment = Null
                 /\ page[k].doc.postId = resp.id

(* A full page listed at offset 1: the newest root is skipped, and a reply  *)
(* newer than the oldest comment listed is left out.                        *)
C17_Witness ==
    /\ resp.op = "roots" /\ resp.code = 200
    /\ resp.skip = 1
    /\ Len(resp.result) = 10
    /\ \E c \in DOMAIN comments :
          /\ comments[c].postId = resp.id
          /\ comments[c].parentComment # Null
          /\ c > resp.result[10]._id
    /\ \E c \in RootsOf(comments, resp.id) : c > resp.result[1]._id

(* ---- the two writes of react ---- *)
(* The request in slot i takes the step it is at.                           *)
Steps(i, pcs) ==
    /\ reqs[i].op = "react"
    /\ reqs[i].pc \in pcs
    /\ reqs'[i] # reqs[i]

(* C18 - counter dispatch on targetType: a react that adds or removes a     *)
(* reaction with targetType Post changes only the likesCount of the Post     *)
(* with the given id, by +1 or -1, and no counter of any Comment or other     *)
(* Post; with targetType Comment only that Comment's likesCount and no        *)
(* counter of any Post; react never changes commentsCount or replyCount.     *)
C18_CounterDispatch ==
    [][/\ \A p \in DOMAIN posts : posts'[p].commentsCount = posts[p].commentsCount
       /\ \A c \in DOMAIN comments : comments'[c].replyCount = comments[c].replyCount
       /\ \A i \in Slots :
             Steps(i, {"inc", "dec"}) =>
                 LET d == IF reqs[i].pc = "inc" THEN 1 ELSE -1
                     id == reqs[i].id
                 IN IF reqs[i].targetType = "Post"
                    THEN /\ comments' = comments
                         /\ \A p \in DOMAIN posts :
                               posts'[p] = IF p = id
                                           THEN [posts[p] EXCEPT !.likesCount = @ + d]
                                           ELSE posts[p]
                    ELSE /\ posts' = posts
                         /\ \A c \in DOMAIN comments :
                               comments'[c] = IF c = id
                                              THEN [comments[c] EXCEPT !.likesCount = @ + d]
                                              ELSE comments[c]
       /\ (\A i \in Slots : ~Steps(i, {"inc", "dec"})) =>
             posts' = posts /\ comments' = comments
      ]_vars

(* A reaction to a comment has been added and removed again while a post    *)
(* keeps the reaction it got: the comment is back at 0, the post at 1.       *)
C18_Witness ==
    /\ Quiescent
    /\ resp.op = "react" /\ resp.status = "removed"
    /\ resp.targetType = "Comment"
    /\ resp.id \in DOMAIN comments
    /\ comments[resp.id].likesCount = 0
    /\ \E p \in DOMAIN posts :
          /\ posts[p].likesCount = 1
          /\ \E k \in DOMAIN likes :
                likes[k].targetId = p /\ likes[k].targetType = "Post"

(* A react request whose targetType is neither Post nor Comment.            *)
Malformed(r) == r.op = "react" /\ r.targetType \notin {"Post", "Comment"}

(* C19 - a react call whose targetType is neither Post nor Comment is       *)
(* rejected with an error and leaves the store unchanged: none of its steps  *)
(* creates, changes or deletes a Reaction or changes a counter, and its      *)
(* response is an error.                                                    *)
C19_MalformedRejected ==
    [][\A i \in Slots :
          /\ (Malformed(reqs'[i]) /\ reqs'[i] # reqs[i]) =>
                 /\ likes' = likes /\ posts' = posts /\ comments' = comments
                 /\ reqs'[i].pc = "insert"
          /\ (Malformed(reqs[i]) /\ reqs'[i] # reqs[i]) =>
                 /\ likes' = likes /\ posts' = posts /\ comments' = comments
                 /\ resp'.rid = reqs[i].rid
                 /\ resp'.code = 500
                 /\ resp'.status \notin {"added", "updated", "removed"}
      ]_vars

(* A malformed call has been rejected while a well-formed call of the same  *)
(* user on the same id is between its two writes.                           *)
C19_Witness ==
    /\ Malformed(resp)
    /\ resp.code = 500 /\ resp.err = "ValidationError"
    /\ \E i \in Slots :
          /\ reqs[i].op = "react" /\ reqs[i].pc = "inc"
          /\ reqs[i].user = resp.user /\ reqs[i].id = resp.id
          /\ reqs[i].rid < resp.rid

(* The request in slot i ends at this step with a server failure.           *)
FailsAt(i, pcs) ==
    /\ Steps(i, pcs)
    /\ reqs'[i] = Idle
    /\ resp'.rid = reqs[i].rid
    /\ resp'.code = 500

CountersUnchanged == posts' = posts /\ comments' = comments

(* C20 - write ordering in react: the ledger write (insert or delete)       *)
(* comes before the likesCount write, as a step of its own; a request whose  *)
(* ledger write fails ends with a server failure and does not change the     *)
(* likesCount; a failure after the ledger write and before the counter write *)
(* leaves the ledger changed and the counter unchanged.                     *)
C20_WriteOrdering ==
    [][/\ \A i \in Slots :
             /\ (reqs'[i] # reqs[i] /\ reqs'[i].op = "react" /\ reqs'[i].pc = "inc") =>
                    /\ reqs[i].pc = "insert"
                    /\ likes' = Append(likes, NewLike(reqs[i].rid, reqs[i].user, reqs[i].id,
                                                      reqs[i].targetType, reqs[i].reactionType))
                    /\ CountersUnchanged
             /\ (reqs'[i] # reqs[i] /\ reqs'[i].op = "react" /\ reqs'[i].pc = "dec") =>
                    /\ reqs[i].pc = "delete"
                    /\ \A k \in DOMAIN likes' : likes'[k]._id # reqs[i].existing._id
                    /\ CountersUnchanged
             /\ FailsAt(i, {"insert", "delete", "saveExisting"}) =>
                    likes' = likes /\ CountersUnchanged
             /\ FailsAt(i, {"inc", "dec"}) =>
                    likes' = likes /\ CountersUnchanged
       /\ ~CountersUnchanged =>
             /\ likes' = likes
             /\ \E i \in Slots : Steps(i, {"inc", "dec"}) /\ resp'.code = 200
      ]_vars

(* A call failed between its two writes: its entry is in the ledger, the    *)
(* post it is on has likesCount 0, and nothing is in flight.                *)
C20_Witness ==
    /\ Quiescent
    /\ resp.op = "react" /\ resp.err = "StoreError"
    /\ resp.targetType = "Post" /\ resp.id \in DOMAIN posts
    /\ \E k \in DOMAIN likes :
          likes[k]._id = resp.rid /\ likes[k].targetId = resp.id
    /\ posts[resp.id].likesCount = 0
    /\ reactsStarted = 1

(* ---- react without a reactionType ---- *)

(* C21 - a react call whose body carries no reactionType behaves as a react *)
(* of type "Like": with no reaction of U on T it creates an entry of type    *)
(* "Like", and a second such call by U on T toggles it off (status removed,  *)
(* no entry of U on T left).                                                *)
C21_DefaultLike ==
    \A U \in Users, T \in Targets(Store) :
        EntriesOf(likes, U, T.id) = {} =>
            LET first == React(Store, U, T, Absent, 1)
                second == React(first.S, U, T, Absent, 2)
                made == EntriesOf(first.S.likes, U, T.id)
            IN /\ first.r.status = "added"
               /\ Cardinality(made) = 1
               /\ \A k \in made : first.S.likes[k].type = "Like"
               /\ second.r.status = "removed"
               /\ EntriesOf(second.S.likes, U, T.id) = {}

(* ---- overlapping comments ---- *)

(* The requests that have saved a comment on the post and not counted it.   *)
UncountedOn(postId) == {i \in Slots : CountingComment(i, postId)}

(* The requests that have saved a reply under root and not counted it.      *)
UncountedUnder(root) == {i \in Slots : CountingReply(i, root)}

(* C22 - no lost counter updates under concurrency: under every             *)
(* interleaving of addComment requests on post P (roots and replies under a  *)
(* root R), P.commentsCount is the number of comments saved on P less the    *)
(* ones whose request has not yet counted them, and R.replyCount the number  *)
(* of replies saved under R less the ones not yet counted; so when N         *)
(* requests have all completed, commentsCount has grown by exactly N and     *)
(* replyCount by exactly the number of them that resolved to R.             *)
C22_NoLostUpdate ==
    /\ \A P \in DOMAIN posts :
           posts[P].commentsCount + Cardinality(UncountedOn(P))
              = Cardinality(CommentsOn(comments, P))
    /\ \A R \in DOMAIN comments :
           comments[R].replyCount + Cardinality(UncountedUnder(R))
              = Cardinality(Replies(comments, R))

(* Two requests overlap under the same root: both have saved their reply,   *)
(* one has counted its reply on the post and neither on the root.           *)
C22_Witness ==
    \E P \in DOMAIN posts, R \in Roots(comments) :
        /\ comments[R].postId = P
        /\ Cardinality(UncountedUnder(R)) = 2
        /\ Cardinality(UncountedOn(P)) = 1
        /\ Cardinality(Replies(comments, R)) = 2
        /\ comments[R].replyCount = 0
        /\ posts[P].commentsCount = 2

(* ---- threads and posts ---- *)

(* C23 - a thread never crosses posts: every persisted reply (a comment     *)
(* with a parentComment) has the postId of the root comment its              *)
(* parentComment names, whatever postId and parentId the calls carried.     *)
C23_ThreadInOnePost ==
    \A c \in DOMAIN comments :
        (comments[c].parentComment # Null
             /\ comments[c].parentComment \in DOMAIN comments) =>
            comments[c].postId = comments[comments[c].parentComment].postId

(* ---- the targets of the ledger ---- *)

(* C24 - no orphan or mistyped reactions: every ledger entry's targetId is  *)
(* the id of a stored Post when its targetType is Post and of a stored      *)
(* Comment when its targetType is Comment; and a react call that names a     *)
(* target which does not exist under the given targetType creates no entry. *)
C24_NoOrphans ==
    /\ \A k \in DOMAIN likes :
           [id |-> likes[k].targetId, type |-> likes[k].targetType] \in Targets(Store)
    /\ \A U \in Users, id \in ExistingIds \cup {MissingId}, type \in TargetTypes :
           [id |-> id, type |-> type] \notin Targets(Store) =>
               React(Store, U, [id |-> id, type |-> type], "Like", 1).S.likes = likes

(* ---- where replies are counted ---- *)

(* The comments of C whose replyCount differs in D.                         *)
Recounted(C, D) == {c \in DOMAIN C : D[c].replyCount # C[c].replyCount}

(* C25 - only roots accumulate replies: in every state every comment with   *)
(* a parentComment has replyCount 0; a step changes the replyCount of at     *)
(* most one comment, it is the count step of an addComment request, and the  *)
(* comment is a root; and an addComment run to its end changes the           *)
(* replyCount of at most one comment, a root.                               *)
C25_OnlyRoots ==
    [][/\ \A c \in DOMAIN comments' :
             comments'[c].parentComment # Null => comments'[c].replyCount = 0
       /\ Cardinality(Recounted(comments, comments')) <= 1
       /\ \A c \in Recounted(comments, comments') :
             /\ comments[c].parentComment = Null
             /\ \E i \in Slots : At(i, "comment", "incRoot") /\ reqs'[i].pc = "populate"
       /\ \A user \in Users, postId \in DOMAIN posts,
             parentId \in {Null, MissingId} \cup DOMAIN comments, content \in BOOLEAN :
             LET out == Run(Store, CommentRequest(user, postId, parentId, content))
                 changed == Recounted(comments, out.S.comments)
             IN /\ Cardinality(changed) <= 1
                /\ \A c \in changed : comments[c].parentComment = Null
                /\ \A c \in DOMAIN out.S.comments \ DOMAIN comments :
                      out.S.comments[c].replyCount = 0
      ]_vars

(* A reply to a reply has been counted: the root has replyCount 2 and the   *)
(* two replies under it, one made to the other, have replyCount 0.          *)
C25_Witness ==
    \E root \in Roots(comments) :
        /\ Quiescent /\ CommentCreated
        /\ resp.parentId \in Replies(comments, root)
        /\ resp.rootCommentId = root
        /\ comments[root].replyCount = 2
        /\ Cardinality(Replies(comments, root)) = 2
        /\ \A c \in Replies(comments, root) : comments[c].replyCount = 0

====
